---------------------------- MODULE Spec2Model ----------------------------
(***************************************************************************)
(* Gomod patch generation of dalec: the edit directives (Require/Replace), *)
(* the "go mod edit" command compiler, the patch-script synthesizer, the   *)
(* patch LLB state builder and the Preprocess orchestrator that registers  *)
(* the generated patches in the Spec.                                      *)
(*                                                                         *)
(* Go strings are TLA+ strings (Len, SubSeq and \o act on characters).     *)
(* A Go pointer or optional value is a sequence of length 0 (nil) or 1.    *)
(* A Go error is the sequence of its messages, outermost wrap first; the   *)
(* nil error is the empty sequence.                                        *)
(***************************************************************************)
EXTENDS Naturals, Sequences, FiniteSets, TLC

VARIABLES
    pc,            \* position of Preprocess: start, range, gen, built, append, done
    spec0,         \* the Spec as loaded, before Preprocess: [Sources, Patches]
    sOpt,          \* SourceOpts: whether GitCredHelperOpt returns an error
    Sources,       \* s.Sources : source name -> Source
    Patches,       \* s.Patches : source name -> sequence of PatchSpec
    gomodSources,  \* the map returned by s.gomodSources()
    baseSources,   \* the map returned by s.getPatchedSources(...)
    credHelper,    \* the llb.RunOption returned by sOpt.GitCredHelperOpt()
    remaining,     \* keys of gomodSources the range loop has not visited yet
    sourceName,    \* the key the range loop is at (nil outside the loop body)
    genIdx,        \* index into src.Generate of the inner loop
    patchSt,       \* (patchSt, err) returned for the generator at genIdx, nil before the call
    err,           \* the error Preprocess returns
    prev,          \* outcome of an earlier Preprocess of the same loaded Spec
    op,            \* the function a direct call applies (pure-function runs)
    arg,           \* its argument
    ret,           \* its result (nil until it returned)
    runPc,         \* position of a run of the synthesized script
    runData,       \* the scriptTemplateData the script was synthesized from
    runIdx,        \* index of the module block the run is at
    runFs0,        \* the files (path -> content) the run starts from
    runFs,         \* the files as the run has left them
    runTmp,        \* $tmpdir: the saved manifest and lock file (nil outside a block)
    runPatch,      \* the patch-output file: the diffs appended so far
    runFailed      \* the command whose non-zero status made the shell exit ("" if none)

vars == <<pc, spec0, sOpt, Sources, Patches, gomodSources, baseSources, credHelper,
          remaining, sourceName, genIdx, patchSt, err, prev, op, arg, ret,
          runPc, runData, runIdx, runFs0, runFs, runTmp, runPatch, runFailed>>

preprocessVars == <<pc, spec0, sOpt, Sources, Patches, gomodSources, baseSources,
                    credHelper, remaining, sourceName, genIdx, patchSt, err, prev>>

callVars == <<op, arg, ret>>

runVars == <<runPc, runData, runIdx, runFs0, runFs, runTmp, runPatch, runFailed>>

-----------------------------------------------------------------------------
(* Bounds of the model *)

MaxGens == 2
MaxDirectives == 2
MaxHosts == 2
MaxModules == 2

-----------------------------------------------------------------------------
(* Optional values, maps, sequences *)

None == <<>>
Some(v) == <<v>>

EmptyMap == [k \in {} |-> None]

MapSet(m, k, v) == [x \in (DOMAIN m) \cup {k} |-> IF x = k THEN v ELSE m[x]]

\* m[k] of a Go map of slices: the nil slice when the key is absent
MapGetSlice(m, k) == IF k \in DOMAIN m THEN m[k] ELSE <<>>

SeqsUpTo(S, n) == UNION {[1..k -> S] : k \in 0..n}

RECURSIVE SeqRange(_)
SeqRange(s) == IF s = <<>> THEN {} ELSE {Head(s)} \cup SeqRange(Tail(s))

-----------------------------------------------------------------------------
(* Strings *)

\* The byte order of the characters the model's strings are made of (ASCII)
Alphabet == " \"'-./0123456789:=@ABCDEFGHIJKLMNOPQRSTUVWXYZ_abcdefghijklmnopqrstuvwxyz"

Char(s, i) == SubSeq(s, i, i)

CharRank(c) == CHOOSE i \in 1..Len(Alphabet) : Char(Alphabet, i) = c

\* a < b for Go strings: bytewise lexicographic
RECURSIVE StrLess(_, _)
StrLess(a, b) ==
    IF b = "" THEN FALSE
    ELSE IF a = "" THEN TRUE
    ELSE IF Char(a, 1) = Char(b, 1) THEN StrLess(SubSeq(a, 2, Len(a)), SubSeq(b, 2, Len(b)))
    ELSE CharRank(Char(a, 1)) < CharRank(Char(b, 1))

\* strings.Index(s, sep) + 1 searched from position i on; 0 when sep is not found
RECURSIVE StrIndexFrom(_, _, _)
StrIndexFrom(s, sep, i) ==
    IF i + Len(sep) - 1 > Len(s) THEN 0
    ELSE IF SubSeq(s, i, i + Len(sep) - 1) = sep THEN i
    ELSE StrIndexFrom(s, sep, i + 1)

StrIndex(s, sep) == StrIndexFrom(s, sep, 1)

\* strings.Contains
StrContains(s, sub) ==
    \E i \in 1..(Len(s) + 1) : i + Len(sub) - 1 <= Len(s) /\ SubSeq(s, i, i + Len(sub) - 1) = sub

\* strings.Cut(s, sep): before, after, found
StrCut(s, sep) ==
    LET i == StrIndex(s, sep)
    IN IF i = 0 THEN [before |-> s, after |-> "", found |-> FALSE]
       ELSE [before |-> SubSeq(s, 1, i - 1),
             after |-> SubSeq(s, i + Len(sep), Len(s)),
             found |-> TRUE]

\* strings.Join
RECURSIVE StrJoin(_, _)
StrJoin(elems, sep) ==
    IF elems = <<>> THEN ""
    ELSE IF Len(elems) = 1 THEN elems[1]
    ELSE elems[1] \o sep \o StrJoin(Tail(elems), sep)

\* strings.Split(s, sep) for a non-empty sep
RECURSIVE StrSplit(_, _)
StrSplit(s, sep) ==
    LET c == StrCut(s, sep)
    IN IF ~c.found THEN <<s>> ELSE <<c.before>> \o StrSplit(c.after, sep)

\* fmt.Sprintf("%q", s) for a string of printable characters without quote or backslash
Quote(s) == "\"" \o s \o "\""

-----------------------------------------------------------------------------
(* Edit directives: GomodRequire {Module, Version}, GomodReplace {Original, Update} *)

GomodRequire(module, version) == [Module |-> module, Version |-> version]
GomodReplace(original, update) == [Original |-> original, Update |-> update]

\* (r *GomodRequire).validate: Module is non-empty, Version holds an "@"
RequireViolations(r) ==
    (IF r.Module = "" THEN <<"module must be non-empty">> ELSE <<>>)
    \o (IF ~StrContains(r.Version, "@") THEN <<"version must include @version">> ELSE <<>>)

\* (r *GomodReplace).validate: Original and Update are non-empty
ReplaceViolations(r) ==
    IF r.Original = "" \/ r.Update = "" THEN <<"must be non-empty">> ELSE <<>>

\* (r *GomodRequire).goModEditArg: Version verbatim when the directive is valid
RequireGoModEditArg(r) ==
    IF RequireViolations(r) # <<>> THEN [arg |-> "", err |-> RequireViolations(r)]
    ELSE [arg |-> r.Version, err |-> <<>>]

\* (r *GomodReplace).goModEditArg: "<Original>=<Update>" when both are non-empty
ReplaceGoModEditArg(r) ==
    IF ReplaceViolations(r) # <<>> THEN [arg |-> "", err |-> ReplaceViolations(r)]
    ELSE [arg |-> r.Original \o "=" \o r.Update, err |-> <<>>]

GomodEdits(replace, require) == [Replace |-> replace, Require |-> require]

\* GeneratorGomod: Edits is a pointer, Paths a slice, Auth a map host -> GomodGitAuth
GeneratorGomod(edits, paths, auth) == [Edits |-> edits, Paths |-> paths, Auth |-> auth]

-----------------------------------------------------------------------------
(* Validation of an edit set *)

RECURSIVE RequireErrors(_)
RequireErrors(rs) ==
    IF rs = <<>> THEN <<>> ELSE RequireViolations(Head(rs)) \o RequireErrors(Tail(rs))

RECURSIVE ReplaceErrors(_)
ReplaceErrors(rs) ==
    IF rs = <<>> THEN <<>> ELSE ReplaceViolations(Head(rs)) \o ReplaceErrors(Tail(rs))

\* mutant: validation returns at the first violation
ValidateFirstOnly(gen) ==
    IF gen.Gomod = None \/ gen.Gomod[1].Edits = None THEN <<>>
    ELSE LET all == RequireErrors(gen.Gomod[1].Edits[1].Require)
                    \o ReplaceErrors(gen.Gomod[1].Edits[1].Replace)
         IN IF all = <<>> THEN <<>> ELSE <<Head(all)>>

\* (s *SourceGenerator).Validate on the gomod edits: every Require and every Replace is
\* checked and the violations are joined into one error
Validate(gen) ==
    IF gen.Gomod = None \/ gen.Gomod[1].Edits = None THEN <<>>
    ELSE RequireErrors(gen.Gomod[1].Edits[1].Require)
         \o ReplaceErrors(gen.Gomod[1].Edits[1].Replace)

-----------------------------------------------------------------------------
(* Decoding of a directive, from JSON or YAML: a scalar "<left>:<right>" or a mapping *)

\* a scalar input
Scalar(format, text) ==
    [format |-> format, form |-> "string", text |-> text, fields |-> [k \in {} |-> ""]]

\* a mapping input with the given fields
Mapping(format, fields) ==
    [format |-> format, form |-> "mapping", text |-> "", fields |-> fields]

\* the value of a field of a mapping; a field that is missing stays the zero value
Field(in, key) == IF key \in DOMAIN in.fields THEN in.fields[key] ELSE ""

\* mutant: the decoded Require is returned without validation
UnmarshalRequireUnchecked(in) ==
    IF in.form = "string"
    THEN LET c == StrCut(in.text, ":")
         IN IF ~c.found
            THEN [value |-> GomodRequire("", ""), err |-> <<"expected format module:version">>]
            ELSE [value |-> GomodRequire(c.before, c.after), err |-> <<>>]
    ELSE [value |-> GomodRequire(Field(in, "module"), Field(in, "version")), err |-> <<>>]

\* (r *GomodRequire).UnmarshalJSON / UnmarshalYAML
UnmarshalRequire(in) ==
    LET parsed ==
            IF in.form = "string"
            THEN LET c == StrCut(in.text, ":")
                 IN IF ~c.found
                    THEN [value |-> GomodRequire("", ""),
                          err |-> <<"expected format module:version">>]
                    ELSE [value |-> GomodRequire(c.before, c.after), err |-> <<>>]
            ELSE [value |-> GomodRequire(Field(in, "module"), Field(in, "version")),
                  err |-> <<>>]
    IN IF parsed.err # <<>> THEN parsed
       ELSE IF RequireViolations(parsed.value) # <<>>
       THEN [value |-> GomodRequire("", ""), err |-> RequireViolations(parsed.value)]
       ELSE parsed

\* mutant: the compact string is split at its last colon
UnmarshalReplaceLastColon(in) ==
    LET colons == {i \in 1..Len(in.text) : SubSeq(in.text, i, i) = ":"}
        last == CHOOSE i \in colons : \A j \in colons : j <= i
        parsed ==
            IF in.form = "string"
            THEN IF colons = {}
                 THEN [value |-> GomodReplace("", ""),
                       err |-> <<"expected format old:new">>]
                 ELSE [value |-> GomodReplace(SubSeq(in.text, 1, last - 1),
                                              SubSeq(in.text, last + 1, Len(in.text))),
                       err |-> <<>>]
            ELSE [value |-> GomodReplace(Field(in, "old"), Field(in, "new")), err |-> <<>>]
    IN IF parsed.err # <<>> THEN parsed
       ELSE IF ReplaceViolations(parsed.value) # <<>>
       THEN [value |-> GomodReplace("", ""), err |-> ReplaceViolations(parsed.value)]
       ELSE parsed

\* (r *GomodReplace).UnmarshalJSON / UnmarshalYAML
UnmarshalReplace(in) ==
    LET parsed ==
            IF in.form = "string"
            THEN LET c == StrCut(in.text, ":")
                 IN IF ~c.found
                    THEN [value |-> GomodReplace("", ""),
                          err |-> <<"expected format old:new">>]
                    ELSE [value |-> GomodReplace(c.before, c.after), err |-> <<>>]
            ELSE [value |-> GomodReplace(Field(in, "old"), Field(in, "new")), err |-> <<>>]
    IN IF parsed.err # <<>> THEN parsed
       ELSE IF ReplaceViolations(parsed.value) # <<>>
       THEN [value |-> GomodReplace("", ""), err |-> ReplaceViolations(parsed.value)]
       ELSE parsed

-----------------------------------------------------------------------------
(* gomodEditCommand *)

\* the loop over g.Edits.Replace: args so far, stopping at the first error
RECURSIVE ReplaceArgs(_)
ReplaceArgs(rs) ==
    IF rs = <<>> THEN [args |-> <<>>, err |-> <<>>]
    ELSE LET a == ReplaceGoModEditArg(Head(rs))
         IN IF a.err # <<>> THEN [args |-> <<>>, err |-> a.err]
            ELSE LET rest == ReplaceArgs(Tail(rs))
                 IN IF rest.err # <<>> THEN rest
                    ELSE [args |-> <<"-replace=" \o a.arg>> \o rest.args, err |-> <<>>]

\* the loop over g.Edits.Require
RECURSIVE RequireArgs(_)
RequireArgs(rs) ==
    IF rs = <<>> THEN [args |-> <<>>, err |-> <<>>]
    ELSE LET a == RequireGoModEditArg(Head(rs))
         IN IF a.err # <<>> THEN [args |-> <<>>, err |-> a.err]
            ELSE LET rest == RequireArgs(Tail(rs))
                 IN IF rest.err # <<>> THEN rest
                    ELSE [args |-> <<"-require=" \o a.arg>> \o rest.args, err |-> <<>>]

\* mutant: the require flags are emitted ahead of the replace flags
gomodEditCommandRequireFirst(g) ==
    IF g = None \/ g[1].Edits = None THEN [cmd |-> "", err |-> <<>>]
    ELSE LET rep == ReplaceArgs(g[1].Edits[1].Replace)
             req == RequireArgs(g[1].Edits[1].Require)
             args == req.args \o rep.args
         IN IF rep.err # <<>> THEN [cmd |-> "", err |-> rep.err]
            ELSE IF req.err # <<>> THEN [cmd |-> "", err |-> req.err]
            ELSE IF Len(args) = 0 THEN [cmd |-> "", err |-> <<>>]
            ELSE [cmd |-> "go mod edit " \o StrJoin(args, " "), err |-> <<>>]

\* gomodEditCommand(g *GeneratorGomod) (string, error)
gomodEditCommand(g) ==
    IF g = None \/ g[1].Edits = None THEN [cmd |-> "", err |-> <<>>]
    ELSE LET rep == ReplaceArgs(g[1].Edits[1].Replace)
             req == RequireArgs(g[1].Edits[1].Require)
             args == rep.args \o req.args
         IN IF rep.err # <<>> THEN [cmd |-> "", err |-> rep.err]
            ELSE IF req.err # <<>> THEN [cmd |-> "", err |-> req.err]
            ELSE IF Len(args) = 0 THEN [cmd |-> "", err |-> <<>>]
            ELSE [cmd |-> "go mod edit " \o StrJoin(args, " "), err |-> <<>>]

-----------------------------------------------------------------------------
(* Constants of the gomod preprocessing *)

gomodPatchSourcePrefix == "__gomod_patch_"
gomodPatchFilename == "gomod.patch"
gomodFilename == "go.mod"
gosumFilename == "go.sum"
defaultGitUsername == "git"
workDir == "/work/src"
proxyPath == "/go/pkg/mod"
patchOutputDirDefault == "/tmp/patch-work"

-----------------------------------------------------------------------------
(* path/filepath, for paths without ".." elements *)

RECURSIVE DropDots(_)
DropDots(elems) ==
    IF elems = <<>> THEN <<>>
    ELSE IF Head(elems) \in {"", "."} THEN DropDots(Tail(elems))
    ELSE <<Head(elems)>> \o DropDots(Tail(elems))

\* filepath.Clean
PathClean(p) ==
    LET rooted == Len(p) > 0 /\ Char(p, 1) = "/"
        body == StrJoin(DropDots(StrSplit(p, "/")), "/")
    IN IF rooted THEN "/" \o body
       ELSE IF body = "" THEN "."
       ELSE body

RECURSIVE DropEmpty(_)
DropEmpty(elems) ==
    IF elems = <<>> THEN <<>>
    ELSE IF Head(elems) = "" THEN DropEmpty(Tail(elems))
    ELSE <<Head(elems)>> \o DropEmpty(Tail(elems))

\* filepath.Join: empty elements are ignored, the result is cleaned, "" when all are empty
PathJoin(elems) ==
    IF DropEmpty(elems) = <<>> THEN ""
    ELSE PathClean(StrJoin(DropEmpty(elems), "/"))

-----------------------------------------------------------------------------
(* buildGomodPatchScript *)

\* GomodGitAuth {Header, Token string; SSH *GomodGitAuthSSH {ID, Username}}
GomodGitAuth(header, token, ssh) == [Header |-> header, Token |-> token, SSH |-> ssh]
GomodGitAuthSSH(id, username) == [ID |-> id, Username |-> username]

\* SourceGenerator {Subpath string; Gomod *GeneratorGomod}
SourceGenerator(subpath, gomod) == [Subpath |-> subpath, Gomod |-> gomod]

\* SortMapKeys: the keys of a map in ascending order
RECURSIVE SortedKeys(_)
SortedKeys(S) ==
    IF S = {} THEN <<>>
    ELSE LET m == CHOOSE x \in S : \A y \in S \ {x} : StrLess(x, y)
         IN <<m>> \o SortedKeys(S \ {m})

SortMapKeys(m) == SortedKeys(DOMAIN m)

\* the switch on auth.Token / auth.Header
AuthKind(auth) ==
    IF auth.Token # "" THEN "token"
    ELSE IF auth.Header # "" THEN "header"
    ELSE ""

\* mutant: the credential helper line carries the token itself
GitConfigLineWithToken(host, auth) ==
    LET gpHost == StrCut(host, ":").before
    IN IF auth.SSH # None
       THEN "git config --global url.\"ssh://"
            \o (IF auth.SSH[1].Username # "" THEN auth.SSH[1].Username ELSE defaultGitUsername)
            \o "@" \o host \o "/\".insteadOf https://" \o gpHost \o "/\n"
       ELSE IF AuthKind(auth) # ""
       THEN "git config --global credential.\"https://" \o host
            \o ".helper\" \"/usr/local/bin/frontend credential-helper --kind="
            \o AuthKind(auth) \o " --token=" \o auth.Token \o "\"\n"
       ELSE ""

\* one iteration of the loop over sortedHosts: what it writes to gitConfig
GitConfigLine(host, auth) ==
    LET gpHost == StrCut(host, ":").before
    IN IF auth.SSH # None
       THEN "git config --global url.\"ssh://"
            \o (IF auth.SSH[1].Username # "" THEN auth.SSH[1].Username ELSE defaultGitUsername)
            \o "@" \o host \o "/\".insteadOf https://" \o gpHost \o "/\n"
       ELSE IF AuthKind(auth) # ""
       THEN "git config --global credential.\"https://" \o host
            \o ".helper\" \"/usr/local/bin/frontend credential-helper --kind="
            \o AuthKind(auth) \o "\"\n"
       ELSE ""

RECURSIVE GitConfigOf(_, _)
GitConfigOf(hosts, auth) ==
    IF hosts = <<>> THEN ""
    ELSE GitConfigLine(Head(hosts), auth[Head(hosts)]) \o GitConfigOf(Tail(hosts), auth)

\* mutant: the host keeps its port in GOPRIVATE
GoPrivateHostsWithPort(hosts) ==
    [i \in 1..Len(hosts) |-> hosts[i]]

\* goPrivateHosts: every host of sortedHosts cut at its first ":"
GoPrivateHosts(hosts) ==
    [i \in 1..Len(hosts) |-> StrCut(hosts[i], ":").before]

\* goPrivate and goInsecure: "" without hosts, else the quoted comma-joined list
GoPrivateValue(auth) ==
    IF Len(SortMapKeys(auth)) > 0
    THEN Quote(StrJoin(GoPrivateHosts(SortMapKeys(auth)), ","))
    ELSE ""

\* moduleInfo of one relPath
ModuleInfo(relPath, gen, srcName) ==
    LET joinedWorkDir == PathJoin(<<workDir, srcName, gen.Subpath>>)
        moduleDir == PathClean(PathJoin(<<joinedWorkDir, relPath>>))
        rel == PathClean(PathJoin(<<gen.Subpath, relPath>>))
        relModulePath == IF rel = "." THEN "" ELSE rel
    IN [RelModulePath |-> relModulePath,
        ModuleDir |-> moduleDir,
        GoModPath |-> PathJoin(<<moduleDir, gomodFilename>>),
        GoSumPath |-> PathJoin(<<moduleDir, gosumFilename>>),
        RelGoModPath |-> PathJoin(<<relModulePath, gomodFilename>>),
        RelGoSumPath |-> PathJoin(<<relModulePath, gosumFilename>>)]

\* scriptTemplateData
ScriptTemplateData(editCmd, paths, gen, srcName, patchOutputDir) ==
    [PatchPath |-> PathJoin(<<patchOutputDir, gomodPatchFilename>>),
     EditCmd |-> editCmd,
     GitConfig |-> GitConfigOf(SortMapKeys(gen.Gomod[1].Auth), gen.Gomod[1].Auth),
     GoPrivate |-> GoPrivateValue(gen.Gomod[1].Auth),
     GoInsecure |-> GoPrivateValue(gen.Gomod[1].Auth),
     GoModFilename |-> gomodFilename,
     GoSumFilename |-> gosumFilename,
     Modules |-> [i \in 1..Len(paths) |-> ModuleInfo(paths[i], gen, srcName)]]

\* the template up to the git authentication block
ScriptHead(d) ==
    "#!/bin/sh\nset -e\n\n# Ensure Go is in PATH\n"
    \o "# On older Ubuntu versions, Go is installed in versioned directories like /usr/lib/go-1.18/bin\n"
    \o "if ! command -v go >/dev/null 2>&1; then\n"
    \o "  for godir in /usr/lib/go-*/bin; do\n"
    \o "    if [ -d \"$godir\" ] && [ -x \"$godir/go\" ]; then\n"
    \o "      export PATH=\"$godir:$PATH\"\n      break\n    fi\n  done\nfi\n\n"
    \o "export GOMODCACHE=\"${TMP_GOMODCACHE}\"\n"
    \o ": > \"" \o d.PatchPath \o "\"\n"
    \o "echo 'Generating gomod patch with edits: " \o d.EditCmd \o "'\n"
    \o "echo ''"

\* {{- if .GitConfig}} ... {{- end}}
ScriptGitConfig(d) ==
    IF d.GitConfig # "" THEN "\n# Setup git authentication\n" \o d.GitConfig ELSE ""

\* {{- if .GoPrivate}} ... {{- end}}
ScriptGoPrivate(d) ==
    IF d.GoPrivate # ""
    THEN "\nexport GOPRIVATE=" \o d.GoPrivate \o "\nexport GOINSECURE=" \o d.GoInsecure
    ELSE ""

\* the body of {{- range .Modules}} for one module
ScriptModule(d, m) ==
    "\n# Process " \o m.RelModulePath \o "\n"
    \o "if [ -f \"" \o m.GoModPath \o "\" ]; then\n"
    \o "  tmpdir=$(mktemp -d)\n"
    \o "  cp \"" \o m.GoModPath \o "\" \"$tmpdir/" \o d.GoModFilename \o "\"\n"
    \o "  if [ -f \"" \o m.GoSumPath \o "\" ]; then cp \"" \o m.GoSumPath \o "\" \"$tmpdir/"
    \o d.GoSumFilename \o "\"; else : > \"$tmpdir/" \o d.GoSumFilename \o "\"; fi\n"
    \o "  cd \"" \o m.ModuleDir \o "\"\n"
    \o "  " \o d.EditCmd \o "\n"
    \o "  go mod tidy\n"
    \o "  cd -\n"
    \o "  if [ ! -f \"" \o m.GoSumPath \o "\" ]; then touch \"" \o m.GoSumPath \o "\"; fi\n\n"
    \o "  # Capture diffs and append to patch file\n"
    \o "  diff -u --label a/" \o m.RelGoModPath \o " --label b/" \o m.RelGoModPath
    \o " \"$tmpdir/" \o d.GoModFilename \o "\" \"" \o m.GoModPath \o "\" >> \""
    \o d.PatchPath \o "\" || true\n"
    \o "  if [ -f \"" \o m.GoSumPath \o "\" ] || [ -s \"$tmpdir/" \o d.GoSumFilename \o "\" ]; then\n"
    \o "    diff -u --label a/" \o m.RelGoSumPath \o " --label b/" \o m.RelGoSumPath
    \o " \"$tmpdir/" \o d.GoSumFilename \o "\" \"" \o m.GoSumPath \o "\" >> \""
    \o d.PatchPath \o "\" || true\n"
    \o "  fi\n"
    \o "  rm -rf \"$tmpdir\"\n"
    \o "fi"

RECURSIVE ScriptModules(_, _)
ScriptModules(d, ms) ==
    IF ms = <<>> THEN "" ELSE ScriptModule(d, Head(ms)) \o ScriptModules(d, Tail(ms))

\* the template after the range
ScriptTail(d) ==
    "\n\necho 'Gomod patch generation complete'\n"
    \o "if [ -s \"" \o d.PatchPath \o "\" ]; then\n"
    \o "  echo 'Patch file created with changes'\n"
    \o "  wc -l \"" \o d.PatchPath \o "\"\n"
    \o "else\n"
    \o "  echo 'No changes detected - patch file is empty'\n"
    \o "fi\n"

\* tmpl.Execute(script, data) on scripts/gomod-patch.sh
ExecuteTemplate(d) ==
    ScriptHead(d) \o ScriptGitConfig(d) \o ScriptGoPrivate(d)
    \o ScriptModules(d, d.Modules) \o ScriptTail(d)

\* the error of template.New(...).Parse and tmpl.Execute: the embedded template parses, and
\* executes on every scriptTemplateData
TemplateError == <<>>

\* buildGomodPatchScript(editCmd, paths, gen, sourceName, patchOutputDir): (script, error)
buildGomodPatchScript(editCmd, paths, gen, srcName, patchOutputDir) ==
    [script |-> ExecuteTemplate(ScriptTemplateData(editCmd, paths, gen, srcName, patchOutputDir)),
     err |-> TemplateError]

-----------------------------------------------------------------------------
(* generateGomodPatchStateForSource *)

\* the patch source name derived from the source name
PatchSourceName(srcName) == gomodPatchSourcePrefix \o srcName

\* the LLB state returned: the worker runs /gomod-patch.sh with the script, the base state
\* of the source, the module cache and the patch output mounted; the captured gomod.patch
\* is copied to /<patchSourceName>/gomod.patch of a scratch state
PatchLLBState(srcName, scriptContent, baseState, helper) ==
    [run |-> [args |-> <<"/gomod-patch.sh">>,
              script |-> scriptContent,
              mounts |-> <<"/gomod-patch.sh", workDir, proxyPath, patchOutputDirDefault>>,
              base |-> baseState,
              credHelper |-> helper # None,
              progress |-> "Generate gomod patch for source: " \o srcName],
     mkdir |-> PathJoin(<<"/", PatchSourceName(srcName)>>),
     copyFrom |-> "/" \o gomodPatchFilename,
     copyTo |-> PathJoin(<<"/", PatchSourceName(srcName), gomodPatchFilename>>)]

\* generateGomodPatchStateForSource(sourceName, gen, baseState, worker, credHelper):
\* (nil, err) when the edit command fails, (nil, nil) when it is empty, else the state
generateGomodPatchStateForSource(srcName, gen, baseState, helper) ==
    LET edit == gomodEditCommand(gen.Gomod)
        paths == IF Len(gen.Gomod[1].Paths) = 0 THEN <<".">> ELSE gen.Gomod[1].Paths
        built == buildGomodPatchScript(edit.cmd, paths, gen, srcName, patchOutputDirDefault)
    IN IF edit.err # <<>> THEN [st |-> None, err |-> edit.err]
       ELSE IF edit.cmd = "" THEN [st |-> None, err |-> <<>>]
       ELSE IF built.err # <<>> THEN [st |-> None, err |-> built.err]
       ELSE [st |-> Some(PatchLLBState(srcName, built.script, baseState, helper)),
             err |-> <<>>]

-----------------------------------------------------------------------------
(* The Spec: Sources and Patches *)

\* Source: LLB is set for an internal source only; Generate is a slice of *SourceGenerator
Source(llbState, generate) == [LLB |-> llbState, Generate |-> generate]

\* PatchSpec {Source, Path string; Strip *int}
PatchSpec(source, path, strip) == [Source |-> source, Path |-> path, Strip |-> strip]

\* newSourceLLB(st): the internal source that wraps an LLB state
newSourceLLB(st) == [state |-> st]

\* gen == nil || gen.Gomod == nil
IsNotGomod(g) == IF g = None THEN TRUE ELSE g[1].Gomod = None

\* a generator that carries edit directives
HasEditDirectives(g) ==
    /\ g # None
    /\ g[1].Gomod # None
    /\ g[1].Gomod[1].Edits # None
    /\ Len(g[1].Gomod[1].Edits[1].Replace) + Len(g[1].Gomod[1].Edits[1].Require) > 0

\* s.gomodSources(): the sources that declare at least one generator with edit directives
GomodSourcesOf(S) ==
    LET names == {n \in DOMAIN S :
                     \E i \in 1..Len(S[n].Generate) : HasEditDirectives(S[n].Generate[i])}
    IN [n \in names |-> S[n]]

\* s.getPatchedSources(sOpt, worker, filter): for every source the filter accepts, its
\* state with the patches the Spec lists for it applied
GetPatchedSources(S, P, accept) ==
    [n \in {x \in DOMAIN S : x \in accept} |->
        [source |-> n, patched |-> MapGetSlice(P, n)]]

\* mutant: the early return on an empty gomodSources is missing
NoGomodSourcesNever(gs) == FALSE

\* len(gomodSources) == 0
NoGomodSources(gs) == Cardinality(DOMAIN gs) = 0

\* the error of a failing GitCredHelperOpt as Preprocess returns it
CredHelperError ==
    <<"failed to preprocess gomod edits", "failed to get git credential helper",
      "git credential helper unavailable">>

\* mutant: the error is wrapped without the name of the source
GenerateErrorUnnamed(cause, srcName) ==
    <<"failed to preprocess gomod edits", "failed to generate gomod patch state">> \o cause

\* the error of a failing generator as Preprocess returns it
GenerateError(cause, srcName) ==
    <<"failed to preprocess gomod edits",
      "failed to generate gomod patch state for source " \o srcName>> \o cause

\* mutant: the patch reference names the prefix, not the patch source
GomodPatchSpecOfPrefix(patchSourceName) ==
    PatchSpec(gomodPatchSourcePrefix, gomodPatchFilename, Some(1))

\* the patch reference injected for a patch source
GomodPatchSpec(patchSourceName) == PatchSpec(patchSourceName, gomodPatchFilename, Some(1))

\* mutant: the patch reference is put ahead of the patches already present
PrependPatch(P, srcName, ref) == MapSet(P, srcName, <<ref>> \o MapGetSlice(P, srcName))

\* s.Patches[sourceName] = append(s.Patches[sourceName], PatchSpec{...})
AppendPatch(P, srcName, ref) == MapSet(P, srcName, Append(MapGetSlice(P, srcName), ref))

-----------------------------------------------------------------------------
(* Inputs of the direct calls *)

RequireSpace ==
    { GomodRequire("example.com/a", "example.com/a@v1.2.0"),
      GomodRequire("mod", "mod@ver"),
      GomodRequire("example.com/a", "v1.2.0"),
      GomodRequire("", "mod@ver") }

ReplaceSpace ==
    { GomodReplace("old", "new"),
      GomodReplace("example.com/a", "example.com/b@v1.0.0"),
      GomodReplace("", "new"),
      GomodReplace("old", "") }

EditSets ==
    { GomodEdits(rep, req) : rep \in SeqsUpTo(ReplaceSpace, MaxDirectives),
                             req \in SeqsUpTo(RequireSpace, MaxDirectives) }

\* *GeneratorGomod arguments of gomodEditCommand: nil, nil Edits, or an edit set
EditCommandArgs ==
    {None, Some(GeneratorGomod(None, <<>>, EmptyMap))}
    \cup {Some(GeneratorGomod(Some(e), <<>>, EmptyMap)) : e \in EditSets}

HostSpace == {"github.com", "gitlab.example.com:2222", "example.com"}

AuthSpace ==
    { GomodGitAuth("", "", None),
      GomodGitAuth("", "s3cretTokenA", None),
      GomodGitAuth("hdrValueA", "s3cretTokenB", None),
      GomodGitAuth("hdrValueA", "", None),
      GomodGitAuth("hdrValueB", "", None),
      GomodGitAuth("", "", Some(GomodGitAuthSSH("sshKeyA", ""))),
      GomodGitAuth("", "s3cretTokenA", Some(GomodGitAuthSSH("sshKeyB", ""))),
      GomodGitAuth("", "", Some(GomodGitAuthSSH("sshKeyA", "deploy"))) }

\* the Auth maps with at most MaxHosts hosts
AuthMaps ==
    UNION { [hs -> AuthSpace] : hs \in {h \in SUBSET HostSpace : Cardinality(h) <= MaxHosts} }

\* module paths of a generator with the generator's Subpath
PathsSpace ==
    { [paths |-> <<".">>, subpath |-> ""],
      [paths |-> <<".", "sub">>, subpath |-> "cmd"] }

ScriptArgs ==
    { [editCmd |-> "go mod edit -require=mod@ver",
       paths |-> ps.paths,
       gen |-> SourceGenerator(ps.subpath, Some(GeneratorGomod(None, ps.paths, auth))),
       sourceName |-> "app",
       patchOutputDir |-> patchOutputDirDefault]
      : ps \in PathsSpace, auth \in AuthMaps }

\* SourceGenerator arguments of Validate: no gomod generator, nil Edits, or an edit set
ValidateArgs ==
    { SourceGenerator("", g) : g \in EditCommandArgs }

Formats == {"json", "yaml"}

ScalarTexts ==
    { "mod:mod@ver", "example.com/a:example.com/a@v1.2.0", "old:new", "mod", "",
      "mod:v1.8.0", ":mod@ver", "old:", "file:C:/mods/a@v1" }

FieldValues == { "", "mod", "mod@ver" }

MappingsOver(keys) == UNION { [ks -> FieldValues] : ks \in SUBSET keys }

RequireInputs ==
    { Scalar(f, t) : f \in Formats, t \in ScalarTexts }
    \cup { Mapping(f, m) : f \in Formats, m \in MappingsOver({"module", "version"}) }

ReplaceInputs ==
    { Scalar(f, t) : f \in Formats, t \in ScalarTexts }
    \cup { Mapping(f, m) : f \in Formats, m \in MappingsOver({"old", "new"}) }

\* generators of the Specs that Preprocess is run on
NilGen == None
OtherGen == Some(SourceGenerator("", None))
EmptyEditsGen ==
    Some(SourceGenerator("", Some(GeneratorGomod(Some(GomodEdits(<<>>, <<>>)), <<>>, EmptyMap))))
RequireGen ==
    Some(SourceGenerator("",
        Some(GeneratorGomod(
            Some(GomodEdits(<<>>, <<GomodRequire("example.com/a", "example.com/a@v1.2.0")>>)),
            <<>>, EmptyMap))))
ReplaceGen ==
    Some(SourceGenerator("cmd",
        Some(GeneratorGomod(
            Some(GomodEdits(<<GomodReplace("old", "new")>>, <<GomodRequire("mod", "mod@ver")>>)),
            <<".", "sub">>,
            "github.com" :> GomodGitAuth("", "s3cretTokenA", None)))))
BadGen ==
    Some(SourceGenerator("",
        Some(GeneratorGomod(
            Some(GomodEdits(<<>>, <<GomodRequire("example.com/a", "v1.2.0")>>)),
            <<>>, EmptyMap))))

SpecGenerators == {NilGen, OtherGen, EmptyEditsGen, RequireGen, ReplaceGen, BadGen}

\* a patch the Spec already lists for source "app", with its patch source "fix"
UserPatch == PatchSpec("fix", "fix.patch", None)

\* the Specs Preprocess is run on: source "app" with up to MaxGens generators, source
\* "lib" with at most one, with or without a patch already listed for "app"
LoadedSpecs ==
    { [Sources |-> IF userPatch
                   THEN ("app" :> Source(None, ga)) @@ ("lib" :> Source(None, gl))
                        @@ ("fix" :> Source(None, <<>>))
                   ELSE ("app" :> Source(None, ga)) @@ ("lib" :> Source(None, gl)),
       Patches |-> IF userPatch THEN ("app" :> <<UserPatch>>) ELSE EmptyMap]
      : ga \in SeqsUpTo(SpecGenerators, MaxGens),
        gl \in SeqsUpTo(SpecGenerators, 1),
        userPatch \in BOOLEAN }

-----------------------------------------------------------------------------
(* State outside a run of Preprocess, state outside a direct call *)

PreprocessIdle ==
    /\ pc = "idle"
    /\ spec0 = [Sources |-> EmptyMap, Patches |-> EmptyMap]
    /\ sOpt = [GitCredHelperOptErr |-> FALSE]
    /\ Sources = EmptyMap
    /\ Patches = EmptyMap
    /\ gomodSources = EmptyMap
    /\ baseSources = EmptyMap
    /\ credHelper = None
    /\ remaining = {}
    /\ sourceName = None
    /\ genIdx = 0
    /\ patchSt = None
    /\ err = <<>>
    /\ prev = None

CallIdle == op = "none" /\ arg = None /\ ret = None

RunIdle ==
    /\ runPc = "idle"
    /\ runData = None
    /\ runIdx = 0
    /\ runFs0 = EmptyMap
    /\ runFs = EmptyMap
    /\ runTmp = None
    /\ runPatch = <<>>
    /\ runFailed = ""

-----------------------------------------------------------------------------
(* Direct calls of gomodEditCommand *)

InitEdit ==
    /\ PreprocessIdle
    /\ RunIdle
    /\ op = "gomodEditCommand"
    /\ arg \in EditCommandArgs
    /\ ret = None

CallGomodEditCommand ==
    /\ op = "gomodEditCommand"
    /\ ret = None
    /\ ret' = Some(gomodEditCommand(arg))
    /\ UNCHANGED <<op, arg>>
    /\ UNCHANGED preprocessVars
    /\ UNCHANGED runVars

NextEdit == CallGomodEditCommand

SpecEdit == InitEdit /\ [][NextEdit]_vars

-----------------------------------------------------------------------------
(* Direct calls of buildGomodPatchScript *)

InitScript ==
    /\ PreprocessIdle
    /\ RunIdle
    /\ op = "buildGomodPatchScript"
    /\ arg \in ScriptArgs
    /\ ret = None

CallBuildGomodPatchScript ==
    /\ op = "buildGomodPatchScript"
    /\ ret = None
    /\ ret' = Some(buildGomodPatchScript(arg.editCmd, arg.paths, arg.gen,
                                         arg.sourceName, arg.patchOutputDir))
    /\ UNCHANGED <<op, arg>>
    /\ UNCHANGED preprocessVars
    /\ UNCHANGED runVars

NextScript == CallBuildGomodPatchScript

SpecScript == InitScript /\ [][NextScript]_vars

-----------------------------------------------------------------------------
(* Direct calls of Validate *)

InitValidate ==
    /\ PreprocessIdle
    /\ RunIdle
    /\ op = "Validate"
    /\ arg \in ValidateArgs
    /\ ret = None

CallValidate ==
    /\ op = "Validate"
    /\ ret = None
    /\ ret' = Some(Validate(arg))
    /\ UNCHANGED <<op, arg>>
    /\ UNCHANGED preprocessVars
    /\ UNCHANGED runVars

NextValidate == CallValidate

SpecValidate == InitValidate /\ [][NextValidate]_vars

-----------------------------------------------------------------------------
(* Direct calls of the decoders *)

InitDecode ==
    /\ PreprocessIdle
    /\ RunIdle
    /\ \/ op = "UnmarshalRequire" /\ arg \in RequireInputs
       \/ op = "UnmarshalReplace" /\ arg \in ReplaceInputs
    /\ ret = None

CallUnmarshalRequire ==
    /\ op = "UnmarshalRequire"
    /\ ret = None
    /\ ret' = Some(UnmarshalRequire(arg))
    /\ UNCHANGED <<op, arg>>
    /\ UNCHANGED preprocessVars
    /\ UNCHANGED runVars

CallUnmarshalReplace ==
    /\ op = "UnmarshalReplace"
    /\ ret = None
    /\ ret' = Some(UnmarshalReplace(arg))
    /\ UNCHANGED <<op, arg>>
    /\ UNCHANGED preprocessVars
    /\ UNCHANGED runVars

NextDecode == CallUnmarshalRequire \/ CallUnmarshalReplace

SpecDecode == InitDecode /\ [][NextDecode]_vars

-----------------------------------------------------------------------------
(* Preprocess: (s *Spec).Preprocess -> preprocessGomodEdits *)

Init ==
    /\ CallIdle
    /\ RunIdle
    /\ spec0 \in LoadedSpecs
    /\ sOpt \in {[GitCredHelperOptErr |-> e] : e \in BOOLEAN}
    /\ Sources = spec0.Sources
    /\ Patches = spec0.Patches
    /\ pc = "start"
    /\ gomodSources = EmptyMap
    /\ baseSources = EmptyMap
    /\ credHelper = None
    /\ remaining = {}
    /\ sourceName = None
    /\ genIdx = 0
    /\ patchSt = None
    /\ err = <<>>
    /\ prev = None

\* what a run of Preprocess leaves: the returned error and the Spec
Outcome == [err |-> err, Sources |-> Sources, Patches |-> Patches]

\* the generators of the source the range loop is at, and the one the inner loop is at
CurGenerators == gomodSources[sourceName[1]].Generate
CurGen == CurGenerators[genIdx]

\* the result of generateGomodPatchStateForSource for the generator the inner loop is at
CurBuild ==
    generateGomodPatchStateForSource(sourceName[1], CurGen[1],
                                     baseSources[sourceName[1]], credHelper)

\* no source has gomod edits: return nil
StartNoGomodSources ==
    /\ pc = "start"
    /\ NoGomodSources(GomodSourcesOf(Sources))
    /\ gomodSources' = GomodSourcesOf(Sources)
    /\ err' = <<>>
    /\ pc' = "done"
    /\ UNCHANGED <<spec0, sOpt, Sources, Patches, baseSources, credHelper, remaining,
                   sourceName, genIdx, patchSt, prev>>
    /\ UNCHANGED callVars
    /\ UNCHANGED runVars

\* sOpt.GitCredHelperOpt() returns an error
StartCredHelperFails ==
    /\ pc = "start"
    /\ ~NoGomodSources(GomodSourcesOf(Sources))
    /\ sOpt.GitCredHelperOptErr
    /\ gomodSources' = GomodSourcesOf(Sources)
    /\ baseSources' = GetPatchedSources(Sources, Patches, DOMAIN GomodSourcesOf(Sources))
    /\ err' = CredHelperError
    /\ pc' = "done"
    /\ UNCHANGED <<spec0, sOpt, Sources, Patches, credHelper, remaining, sourceName,
                   genIdx, patchSt, prev>>
    /\ UNCHANGED callVars
    /\ UNCHANGED runVars

\* the range loop over gomodSources starts
StartLoop ==
    /\ pc = "start"
    /\ ~NoGomodSources(GomodSourcesOf(Sources))
    /\ ~sOpt.GitCredHelperOptErr
    /\ gomodSources' = GomodSourcesOf(Sources)
    /\ baseSources' = GetPatchedSources(Sources, Patches, DOMAIN GomodSourcesOf(Sources))
    /\ credHelper' = Some("git-credential-helper")
    /\ remaining' = DOMAIN GomodSourcesOf(Sources)
    /\ pc' = "range"
    /\ UNCHANGED <<spec0, sOpt, Sources, Patches, sourceName, genIdx, patchSt, err, prev>>
    /\ UNCHANGED callVars
    /\ UNCHANGED runVars

\* for sourceName, src := range gomodSources: a Go map is ranged over in no defined order
RangeNext ==
    /\ pc = "range"
    /\ \E n \in remaining :
          /\ sourceName' = Some(n)
          /\ remaining' = remaining \ {n}
          /\ IF n \in DOMAIN baseSources
             THEN genIdx' = 1 /\ pc' = "gen"
             ELSE genIdx' = genIdx /\ pc' = "range"
    /\ UNCHANGED <<spec0, sOpt, Sources, Patches, gomodSources, baseSources, credHelper,
                   patchSt, err, prev>>
    /\ UNCHANGED callVars
    /\ UNCHANGED runVars

\* the range loop is over: return nil
RangeDone ==
    /\ pc = "range"
    /\ remaining = {}
    /\ err' = <<>>
    /\ pc' = "done"
    /\ UNCHANGED <<spec0, sOpt, Sources, Patches, gomodSources, baseSources, credHelper,
                   remaining, sourceName, genIdx, patchSt, prev>>
    /\ UNCHANGED callVars
    /\ UNCHANGED runVars

\* gen == nil || gen.Gomod == nil: continue
GenerateSkip ==
    /\ pc = "gen"
    /\ genIdx <= Len(CurGenerators)
    /\ IsNotGomod(CurGen)
    /\ genIdx' = genIdx + 1
    /\ UNCHANGED <<pc, spec0, sOpt, Sources, Patches, gomodSources, baseSources, credHelper,
                   remaining, sourceName, patchSt, err, prev>>
    /\ UNCHANGED callVars
    /\ UNCHANGED runVars

\* patchSt, err := s.generateGomodPatchStateForSource(sourceName, gen, baseState, ...)
Generate ==
    /\ pc = "gen"
    /\ genIdx <= Len(CurGenerators)
    /\ ~IsNotGomod(CurGen)
    /\ patchSt' = Some(CurBuild)
    /\ pc' = "built"
    /\ UNCHANGED <<spec0, sOpt, Sources, Patches, gomodSources, baseSources, credHelper,
                   remaining, sourceName, genIdx, err, prev>>
    /\ UNCHANGED callVars
    /\ UNCHANGED runVars

\* err != nil: Preprocess returns the error, wrapped
GenerateFails ==
    /\ pc = "built"
    /\ patchSt[1].err # <<>>
    /\ err' = GenerateError(patchSt[1].err, sourceName[1])
    /\ pc' = "done"
    /\ UNCHANGED <<spec0, sOpt, Sources, Patches, gomodSources, baseSources, credHelper,
                   remaining, sourceName, genIdx, patchSt, prev>>
    /\ UNCHANGED callVars
    /\ UNCHANGED runVars

\* patchSt == nil: no changes needed, continue
GenerateNoChange ==
    /\ pc = "built"
    /\ patchSt[1].err = <<>>
    /\ patchSt[1].st = None
    /\ patchSt' = None
    /\ genIdx' = genIdx + 1
    /\ pc' = "gen"
    /\ UNCHANGED <<spec0, sOpt, Sources, Patches, gomodSources, baseSources, credHelper,
                   remaining, sourceName, err, prev>>
    /\ UNCHANGED callVars
    /\ UNCHANGED runVars

\* the inner loop over src.Generate is over
GeneratorsDone ==
    /\ pc = "gen"
    /\ genIdx > Len(CurGenerators)
    /\ pc' = "range"
    /\ UNCHANGED <<spec0, sOpt, Sources, Patches, gomodSources, baseSources, credHelper,
                   remaining, sourceName, genIdx, patchSt, err, prev>>
    /\ UNCHANGED callVars
    /\ UNCHANGED runVars

\* s.Sources[patchSourceName] = Source{LLB: newSourceLLB(*patchSt)}
Register ==
    /\ pc = "built"
    /\ patchSt[1].err = <<>>
    /\ patchSt[1].st # None
    /\ Sources' = MapSet(Sources, PatchSourceName(sourceName[1]),
                         Source(Some(newSourceLLB(patchSt[1].st[1])), <<>>))
    /\ pc' = "append"
    /\ UNCHANGED <<spec0, sOpt, Patches, gomodSources, baseSources, credHelper, remaining,
                   sourceName, genIdx, patchSt, err, prev>>
    /\ UNCHANGED callVars
    /\ UNCHANGED runVars

\* s.Patches[sourceName] = append(s.Patches[sourceName], PatchSpec{...}); next generator
AppendReference ==
    /\ pc = "append"
    /\ Patches' = AppendPatch(Patches, sourceName[1],
                              GomodPatchSpec(PatchSourceName(sourceName[1])))
    /\ patchSt' = None
    /\ genIdx' = genIdx + 1
    /\ pc' = "gen"
    /\ UNCHANGED <<spec0, sOpt, Sources, gomodSources, baseSources, credHelper, remaining,
                   sourceName, err, prev>>
    /\ UNCHANGED callVars
    /\ UNCHANGED runVars

\* the same Spec is loaded and preprocessed once more, the first outcome kept for comparison
Rerun ==
    /\ pc = "done"
    /\ prev = None
    /\ prev' = Some(Outcome)
    /\ Sources' = spec0.Sources
    /\ Patches' = spec0.Patches
    /\ pc' = "start"
    /\ gomodSources' = EmptyMap
    /\ baseSources' = EmptyMap
    /\ credHelper' = None
    /\ remaining' = {}
    /\ sourceName' = None
    /\ genIdx' = 0
    /\ patchSt' = None
    /\ err' = <<>>
    /\ UNCHANGED <<spec0, sOpt>>
    /\ UNCHANGED callVars
    /\ UNCHANGED runVars

Next ==
    \/ StartNoGomodSources
    \/ StartCredHelperFails
    \/ StartLoop
    \/ RangeNext
    \/ RangeDone
    \/ GenerateSkip
    \/ Generate
    \/ GenerateFails
    \/ GenerateNoChange
    \/ GeneratorsDone
    \/ Register
    \/ AppendReference
    \/ Rerun

Spec == Init /\ [][Next]_vars

-----------------------------------------------------------------------------
(* A run of the synthesized script scripts/gomod-patch.sh under "set -e" *)

\* a file of the run: a path with its content
FileAt(path, content) == path :> content

\* diff -u --label a/<label> --label b/<label> old new: no output when the two files are
\* equal, else the diff between them
DiffOutput(label, old, new) ==
    IF old = new THEN <<>> ELSE <<[label |-> label, from |-> old, to |-> new]>>

\* the exit status of diff: 0 when the files are equal, 1 when they differ
DiffStatus(old, new) == IF old = new THEN 0 ELSE 1

\* mutant: the command is not followed by || true, its status is that of the command
OrTrueMissing(status) == status

\* the exit status of "<command> || true"
OrTrue(status) == 0

\* the module block the run is at
RunModule == runData[1].Modules[runIdx]

\* the paths given to the script, in any order without repetition
RunPathSpace == {".", "sub", "tools"}
RunPathSeqs ==
    {p \in SeqsUpTo(RunPathSpace, MaxModules) :
        Len(p) > 0 /\ \A i, j \in 1..Len(p) : i # j => p[i] # p[j]}

\* the generators the script is synthesized for: one require, with and without git auth
RunGens ==
    { SourceGenerator("",
          Some(GeneratorGomod(
              Some(GomodEdits(<<>>, <<GomodRequire("mod", "mod@ver")>>)), p, a)))
      : p \in RunPathSeqs,
        a \in {EmptyMap, "github.com" :> GomodGitAuth("", "s3cretTokenA", None)} }

\* the template data generateGomodPatchStateForSource builds the script from
RunDataOf(gen) ==
    ScriptTemplateData(gomodEditCommand(gen.Gomod).cmd, gen.Gomod[1].Paths, gen, "app",
                       patchOutputDirDefault)

\* the file systems a run starts from: each manifest and each lock file of the modules is
\* there or not
RunFilesOf(d) ==
    LET mods == {d.Modules[i].GoModPath : i \in 1..Len(d.Modules)}
        sums == {d.Modules[i].GoSumPath : i \in 1..Len(d.Modules)}
    IN { [f \in ms \cup ss |-> IF f \in ms THEN "module m" ELSE "h1"]
         : ms \in SUBSET mods, ss \in SUBSET sums }

\* what an earlier run may have left in the patch-output file
StalePatch == <<[label |-> "stale", from |-> "", to |-> "stale"]>>

InitRun ==
    /\ PreprocessIdle
    /\ CallIdle
    /\ \E gen \in RunGens :
          /\ runData = Some(RunDataOf(gen))
          /\ runFs0 \in RunFilesOf(RunDataOf(gen))
    /\ runFs = runFs0
    /\ runPatch \in {<<>>, StalePatch}
    /\ runPc = "head"
    /\ runIdx = 0
    /\ runTmp = None
    /\ runFailed = ""

\* lines 1-18: set -e, PATH, GOMODCACHE, ": > PatchPath" truncates the patch-output file
RunHead ==
    /\ runPc = "head"
    /\ runPatch' = <<>>
    /\ runPc' = "gitconfig"
    /\ UNCHANGED <<runData, runIdx, runFs0, runFs, runTmp, runFailed>>
    /\ UNCHANGED <<preprocessVars, callVars>>

\* lines 20-29: the git config commands, when there are any, and the exports; a git
\* config command that fails ends the run
RunGitConfig ==
    /\ runPc = "gitconfig"
    /\ \E failed \in BOOLEAN :
          /\ failed => runData[1].GitConfig # ""
          /\ runPc' = IF failed THEN "aborted" ELSE "module"
          /\ runFailed' = IF failed THEN "git config" ELSE runFailed
          /\ runIdx' = IF failed THEN runIdx ELSE 1
    /\ UNCHANGED <<runData, runFs0, runFs, runTmp, runPatch>>
    /\ UNCHANGED <<preprocessVars, callVars>>

\* lines 33, 49: [ -f GoModPath ] fails, the block is skipped
RunSkipModule ==
    /\ runPc = "module"
    /\ runIdx <= Len(runData[1].Modules)
    /\ RunModule.GoModPath \notin DOMAIN runFs
    /\ runIdx' = runIdx + 1
    /\ UNCHANGED <<runPc, runData, runFs0, runFs, runTmp, runPatch, runFailed>>
    /\ UNCHANGED <<preprocessVars, callVars>>

\* lines 33-37: the manifest and the lock file (or an empty placeholder) are copied to
\* $tmpdir, cd ModuleDir
RunSaveCopies ==
    /\ runPc = "module"
    /\ runIdx <= Len(runData[1].Modules)
    /\ RunModule.GoModPath \in DOMAIN runFs
    /\ runTmp' = Some([mod |-> runFs[RunModule.GoModPath],
                       sum |-> IF RunModule.GoSumPath \in DOMAIN runFs
                               THEN runFs[RunModule.GoSumPath] ELSE ""])
    /\ runPc' = "edit"
    /\ UNCHANGED <<runData, runIdx, runFs0, runFs, runPatch, runFailed>>
    /\ UNCHANGED <<preprocessVars, callVars>>

\* line 38: the edit command fails and the run ends, or it leaves the manifest as it was
\* or changed
RunEdit ==
    /\ runPc = "edit"
    /\ \E outcome \in {"fails", "same", "changed"} :
          /\ runPc' = IF outcome = "fails" THEN "aborted" ELSE "tidy"
          /\ runFailed' = IF outcome = "fails" THEN "go mod edit" ELSE runFailed
          /\ runFs' = IF outcome = "changed"
                      THEN FileAt(RunModule.GoModPath, runFs[RunModule.GoModPath] \o "+edit")
                           @@ runFs
                      ELSE runFs
    /\ UNCHANGED <<runData, runIdx, runFs0, runTmp, runPatch>>
    /\ UNCHANGED <<preprocessVars, callVars>>

\* lines 39-41: go mod tidy fails and the run ends, or it leaves the lock file as it was
\* or changed; cd -; a lock file that is still missing is created empty
RunTidy ==
    /\ runPc = "tidy"
    /\ \E outcome \in {"fails", "same", "changed"} :
          LET sum == RunModule.GoSumPath
              old == IF sum \in DOMAIN runFs THEN runFs[sum] ELSE ""
          IN /\ runPc' = IF outcome = "fails" THEN "aborted" ELSE "diffmod"
             /\ runFailed' = IF outcome = "fails" THEN "go mod tidy" ELSE runFailed
             /\ runFs' = IF outcome = "fails" THEN runFs
                         ELSE IF outcome = "changed" THEN FileAt(sum, old \o "+sum") @@ runFs
                         ELSE FileAt(sum, old) @@ runFs
    /\ UNCHANGED <<runData, runIdx, runFs0, runTmp, runPatch>>
    /\ UNCHANGED <<preprocessVars, callVars>>

\* line 44: diff -u of the saved manifest and the manifest >> PatchPath || true
RunDiffManifest ==
    /\ runPc = "diffmod"
    /\ LET old == runTmp[1].mod
           new == runFs[RunModule.GoModPath]
           status == OrTrue(DiffStatus(old, new))
       IN /\ runPatch' = runPatch \o DiffOutput(RunModule.RelGoModPath, old, new)
          /\ runPc' = IF status # 0 THEN "aborted" ELSE "diffsum"
          /\ runFailed' = IF status # 0 THEN "diff" ELSE runFailed
    /\ UNCHANGED <<runData, runIdx, runFs0, runFs, runTmp>>
    /\ UNCHANGED <<preprocessVars, callVars>>

\* lines 45-49: if the lock file is there or its saved copy is not empty, diff -u of the
\* saved lock file and the lock file >> PatchPath || true; rm -rf $tmpdir
RunDiffSum ==
    /\ runPc = "diffsum"
    /\ LET old == runTmp[1].sum
           there == RunModule.GoSumPath \in DOMAIN runFs
           new == IF there THEN runFs[RunModule.GoSumPath] ELSE ""
           compared == there \/ old # ""
           status == IF compared THEN OrTrue(DiffStatus(old, new)) ELSE 0
       IN /\ runPatch' = IF compared
                         THEN runPatch \o DiffOutput(RunModule.RelGoSumPath, old, new)
                         ELSE runPatch
          /\ runPc' = IF status # 0 THEN "aborted" ELSE "module"
          /\ runFailed' = IF status # 0 THEN "diff" ELSE runFailed
          /\ runIdx' = IF status # 0 THEN runIdx ELSE runIdx + 1
          /\ runTmp' = IF status # 0 THEN runTmp ELSE None
    /\ UNCHANGED <<runData, runFs0, runFs>>
    /\ UNCHANGED <<preprocessVars, callVars>>

\* lines 53-59: after the last block, the final report
RunReport ==
    /\ runPc = "module"
    /\ runIdx > Len(runData[1].Modules)
    /\ runPc' = "reported"
    /\ UNCHANGED <<runData, runIdx, runFs0, runFs, runTmp, runPatch, runFailed>>
    /\ UNCHANGED <<preprocessVars, callVars>>

NextRun ==
    \/ RunHead
    \/ RunGitConfig
    \/ RunSkipModule
    \/ RunSaveCopies
    \/ RunEdit
    \/ RunTidy
    \/ RunDiffManifest
    \/ RunDiffSum
    \/ RunReport

SpecRun == InitRun /\ [][NextRun]_vars

\* the shell goes on to the next command as long as there is one
SpecRunFair == SpecRun /\ WF_vars(NextRun)

-----------------------------------------------------------------------------
(* Preprocess: claims C1, C2, C3 *)

\* the edit command of generator g compiles to a non-empty string and the build of its
\* script returns no error
CompilesAndBuilds(n, g) ==
    IF IsNotGomod(g) THEN FALSE
    ELSE LET edit == gomodEditCommand(g[1].Gomod)
         IN /\ edit.err = <<>>
            /\ edit.cmd # ""
            /\ TemplateError = <<>>

\* the range loop has reached source n
Visited(n) == credHelper # None /\ n \in DOMAIN gomodSources /\ n \notin remaining

\* the number of generators of source n the inner loop has gone past
ProcessedGens(n) ==
    IF ~Visited(n) THEN 0
    ELSE IF sourceName = Some(n) THEN genIdx - 1
    ELSE Len(spec0.Sources[n].Generate)

\* the number of generators among the first k of source n that compile and build
RECURSIVE BuiltAmong(_, _)
BuiltAmong(n, k) ==
    IF k = 0 THEN 0
    ELSE BuiltAmong(n, k - 1)
         + (IF CompilesAndBuilds(n, spec0.Sources[n].Generate[k]) THEN 1 ELSE 0)

\* count copies of one patch reference
Repeat(ref, count) == [i \in 1..count |-> ref]

\* the patch list of source n: the patches the Spec had, then built references
ExpectedPatches(n, built) ==
    MapGetSlice(spec0.Patches, n)
    \o Repeat([Source |-> "__gomod_patch_" \o n, Path |-> "gomod.patch", Strip |-> <<1>>],
              built)

\* the generator the inner loop is at has been registered, its reference not yet appended
RegisteredNow(n) == pc = "append" /\ sourceName = Some(n)

\* C1: for every generator Preprocess has gone past whose edit command compiles to a
\* non-empty string and whose build returns no error, the Spec has a source entry keyed
\* __gomod_patch_<sourceName> wrapping an LLB state, and the patch list of the source is the
\* list it had before Preprocess, in the same order, followed by exactly one reference
\* {Source: __gomod_patch_<sourceName>, Path: gomod.patch, Strip: 1} per such generator.
C1_RegistersAndAppends ==
    \A n \in DOMAIN spec0.Sources :
        LET built == BuiltAmong(n, ProcessedGens(n))
        IN /\ MapGetSlice(Patches, n) = ExpectedPatches(n, built)
           /\ (built > 0 \/ RegisteredNow(n))
                 => /\ ("__gomod_patch_" \o n) \in DOMAIN Sources
                    /\ Sources["__gomod_patch_" \o n].LLB # None

\* Preprocess has returned nil on a Spec that lists a patch for "app", and has appended
\* two references after it
C1_Witness ==
    /\ pc = "done"
    /\ err = <<>>
    /\ MapGetSlice(spec0.Patches, "app") = <<UserPatch>>
    /\ Len(MapGetSlice(Patches, "app")) = 3
    /\ "__gomod_patch_app" \in DOMAIN Sources

\* generator g has no edit set, or an edit set with no Replace and no Require
EditSetEmpty(g) ==
    IF g = None THEN TRUE
    ELSE IF g[1].Gomod = None THEN TRUE
    ELSE IF g[1].Gomod[1].Edits = None THEN TRUE
    ELSE Len(g[1].Gomod[1].Edits[1].Replace) = 0 /\ Len(g[1].Gomod[1].Edits[1].Require) = 0

\* every source has zero generators or only generators whose edit set is empty
NoEditsAnywhere(S) ==
    \A n \in DOMAIN S : \A i \in 1..Len(S[n].Generate) : EditSetEmpty(S[n].Generate[i])

\* generateGomodPatchStateForSource has returned for a generator with an empty edit set
BuiltOnEmptyEdits ==
    /\ pc = "built"
    /\ EditSetEmpty(CurGen)

GenerateFailed == pc = "done" /\ err # <<>> /\ credHelper # None

\* the source entries of the Spec: those it had, and the patch source of every source with
\* a generator gone past that compiles and builds
ExpectedSourceNames ==
    DOMAIN spec0.Sources
    \cup {"__gomod_patch_" \o n : n \in {m \in DOMAIN spec0.Sources :
                                             BuiltAmong(m, ProcessedGens(m)) > 0}}

\* C3: when generateGomodPatchStateForSource returns an error, Preprocess returns an error
\* that names the source of the failing generator, the generators after it and the sources
\* not yet visited have added nothing, and every source entry and patch reference
\* registered before it is still in the Spec.
C3_FailFastNoRollback ==
    GenerateFailed =>
        /\ sourceName # None
        /\ ~IsNotGomod(CurGen)
        /\ gomodEditCommand(CurGen[1].Gomod).err # <<>>
        /\ \E i \in 1..Len(err) : StrContains(err[i], "for source " \o sourceName[1])
        /\ \A n \in remaining : MapGetSlice(Patches, n) = MapGetSlice(spec0.Patches, n)
        /\ \A n \in DOMAIN spec0.Sources :
              MapGetSlice(Patches, n) = ExpectedPatches(n, BuiltAmong(n, ProcessedGens(n)))
        /\ DOMAIN Sources = ExpectedSourceNames
        /\ \A n \in DOMAIN spec0.Sources : Sources[n] = spec0.Sources[n]

\* the second generator of "app" has failed after the first was registered, "lib" not
\* yet visited
C3_Witness ==
    /\ GenerateFailed
    /\ sourceName = Some("app")
    /\ genIdx = 2
    /\ "lib" \in remaining
    /\ "__gomod_patch_app" \in DOMAIN Sources
    /\ Len(MapGetSlice(Patches, "app")) = Len(MapGetSlice(spec0.Patches, "app")) + 1

-----------------------------------------------------------------------------
(* gomodEditCommand: claim C4 *)

AllDirectivesValid(e) ==
    /\ \A i \in 1..Len(e.Replace) : e.Replace[i].Original # "" /\ e.Replace[i].Update # ""
    /\ \A i \in 1..Len(e.Require) :
          e.Require[i].Module # "" /\ StrContains(e.Require[i].Version, "@")

\* a call of gomodEditCommand on an edit set with at least one directive has returned
EditCallReturned ==
    /\ op = "gomodEditCommand"
    /\ ret # None
    /\ arg # None
    /\ arg[1].Edits # None
    /\ Len(arg[1].Edits[1].Replace) + Len(arg[1].Edits[1].Require) > 0

\* C4: for an edit set (with at least one directive) whose directives are all valid,
\* gomodEditCommand returns no error and the command "go mod edit" followed by the flags,
\* separated by single spaces: flag i is -replace=<Original>=<Update> of the i-th Replace,
\* and after all the replace flags flag j is -require=<Version> of the j-th Require; there
\* are as many flags as directives.
C4_EditCommandShape ==
    (EditCallReturned /\ AllDirectivesValid(arg[1].Edits[1])) =>
        LET e == arg[1].Edits[1]
            words == StrSplit(ret[1].cmd, " ")
            nRep == Len(e.Replace)
            nReq == Len(e.Require)
        IN /\ ret[1].err = <<>>
           /\ Len(words) = 3 + nRep + nReq
           /\ SubSeq(words, 1, 3) = <<"go", "mod", "edit">>
           /\ \A i \in 1..nRep :
                 words[3 + i] = "-replace=" \o e.Replace[i].Original \o "=" \o e.Replace[i].Update
           /\ \A j \in 1..nReq :
                 words[3 + nRep + j] = "-require=" \o e.Require[j].Version

\* witness of C4: a command compiled from two valid Replace and two valid Require
C4_Witness ==
    /\ EditCallReturned
    /\ AllDirectivesValid(arg[1].Edits[1])
    /\ Len(arg[1].Edits[1].Replace) = 2
    /\ Len(arg[1].Edits[1].Require) = 2
    /\ arg[1].Edits[1].Replace[1] # arg[1].Edits[1].Replace[2]
    /\ arg[1].Edits[1].Require[1] # arg[1].Edits[1].Require[2]
    /\ ret[1].cmd # ""

-----------------------------------------------------------------------------
(* Preprocess: claims C5, C6 *)

\* C5: for a given Spec the order in which the sources are processed, and so the returned
\* error and the registrations present when Preprocess returns, are the same on every run.
C5_SameOutcomeOnEveryRun ==
    (pc = "done" /\ prev # None) => Outcome = prev[1]

\* C6: a generator that yields a patch state is registered under a name of its own: the
\* key it is registered under is not yet a source entry of the Spec.
C6_RegistrationsNeverCollide ==
    (pc = "built" /\ patchSt[1].err = <<>> /\ patchSt[1].st # None)
        => ("__gomod_patch_" \o sourceName[1]) \notin DOMAIN Sources

-----------------------------------------------------------------------------
(* buildGomodPatchScript: claims C7 and C8 *)

ScriptCallReturned == op = "buildGomodPatchScript" /\ ret # None

ArgAuth == arg.gen.Gomod[1].Auth

\* the kind of authentication configured for a host: ssh, token, header or none
ConfiguredKind(auth) ==
    IF auth.SSH # None THEN "ssh"
    ELSE IF auth.Token # "" THEN "token"
    ELSE IF auth.Header # "" THEN "header"
    ELSE "none"

SSHUsername(auth) == IF auth.SSH # None THEN auth.SSH[1].Username ELSE ""

\* two Auth maps that differ at most in token values, header values and SSH key references
SameExceptCredentials(a1, a2) ==
    /\ DOMAIN a1 = DOMAIN a2
    /\ \A h \in DOMAIN a1 :
          /\ ConfiguredKind(a1[h]) = ConfiguredKind(a2[h])
          /\ SSHUsername(a1[h]) = SSHUsername(a2[h])

\* the credential material of an Auth map
CredentialsOf(auth) ==
    UNION { {auth[h].Token, auth[h].Header}
            \cup (IF auth[h].SSH # None THEN {auth[h].SSH[1].ID} ELSE {})
            : h \in DOMAIN auth } \ {""}

\* C7: the script is the same for every Auth that differs from the given one only in
\* credential material (same hosts, same kind per host, same SSH usernames), and no
\* token, header or key value occurs in the script or in the GOPRIVATE/GOINSECURE value.
C7_ScriptIndependentOfCredentials ==
    ScriptCallReturned =>
        /\ \A a2 \in AuthMaps :
              SameExceptCredentials(ArgAuth, a2) =>
                  buildGomodPatchScript(arg.editCmd, arg.paths,
                      SourceGenerator(arg.gen.Subpath,
                                      Some(GeneratorGomod(None, arg.paths, a2))),
                      arg.sourceName, arg.patchOutputDir).script = ret[1].script
        /\ \A c \in CredentialsOf(ArgAuth) :
              /\ ~StrContains(ret[1].script, c)
              /\ ~StrContains(GoPrivateValue(ArgAuth), c)

\* witness of C7: a script built for a token host and an SSH host, for which another
\* Auth with other credential values exists
C7_Witness ==
    /\ ScriptCallReturned
    /\ \E h1, h2 \in DOMAIN ArgAuth :
          /\ ConfiguredKind(ArgAuth[h1]) = "token"
          /\ ConfiguredKind(ArgAuth[h2]) = "ssh"
    /\ \E a2 \in AuthMaps :
          /\ SameExceptCredentials(ArgAuth, a2)
          /\ CredentialsOf(a2) # CredentialsOf(ArgAuth)

\* the script exports GOPRIVATE and GOINSECURE
ExportsGoPrivate(script) ==
    StrContains(script, "\nexport GOPRIVATE=") /\ StrContains(script, "\nexport GOINSECURE=")

ExportsGoPrivateAs(script, value) ==
    StrContains(script, "\nexport GOPRIVATE=" \o value \o "\nexport GOINSECURE=" \o value \o "\n")

HasCredentials(auth) == auth.SSH # None \/ auth.Token # "" \/ auth.Header # ""

\* the sequences that list every element of S once, in ascending order
AscendingListings(S) ==
    { q \in [1..Cardinality(S) -> S] :
         \A i, j \in 1..Cardinality(S) : i < j => StrLess(q[i], q[j]) }

\* C8 as stated: the two variables are exported exactly when some host carries SSH,
\* token or header configuration, with the quoted comma-joined sorted host list as value
C8_ExportIffCredentials ==
    ScriptCallReturned =>
        /\ ExportsGoPrivate(ret[1].script) <=> (\E h \in DOMAIN ArgAuth : HasCredentials(ArgAuth[h]))
        /\ ExportsGoPrivate(ret[1].script) =>
              \E q \in AscendingListings(DOMAIN ArgAuth) :
                  ExportsGoPrivateAs(ret[1].script, Quote(StrJoin(q, ",")))

\* C8 amended: the two variables are exported exactly when Auth has at least one host,
\* with or without credentials; the value is the quoted comma-joined list of the hosts of
\* Auth, each cut at its first ":", in the ascending order of the hosts as keyed in Auth.
C8_ExportIffAnyHost ==
    ScriptCallReturned =>
        /\ ExportsGoPrivate(ret[1].script) <=> (DOMAIN ArgAuth # {})
        /\ ExportsGoPrivate(ret[1].script) =>
              \E q \in AscendingListings(DOMAIN ArgAuth) :
                  ExportsGoPrivateAs(ret[1].script,
                      Quote(StrJoin([i \in 1..Len(q) |-> StrCut(q[i], ":").before], ",")))

\* witness of C8: a script for two hosts, one with a port and one without credentials
C8_Witness ==
    /\ ScriptCallReturned
    /\ Cardinality(DOMAIN ArgAuth) = 2
    /\ \E h \in DOMAIN ArgAuth : StrContains(h, ":")
    /\ \E h \in DOMAIN ArgAuth : ~HasCredentials(ArgAuth[h])
    /\ ExportsGoPrivate(ret[1].script)

-----------------------------------------------------------------------------
(* Validate: claim C9 *)

InvalidRequire(r) == r.Module = "" \/ ~StrContains(r.Version, "@")
InvalidReplace(r) == r.Original = "" \/ r.Update = ""

ValidateCallReturned ==
    /\ op = "Validate"
    /\ ret # None
    /\ arg.Gomod # None
    /\ arg.Gomod[1].Edits # None

InvalidDirectiveCount(e) ==
    Cardinality({i \in 1..Len(e.Require) : InvalidRequire(e.Require[i])})
    + Cardinality({i \in 1..Len(e.Replace) : InvalidReplace(e.Replace[i])})

\* C9: the error of Validate is non-nil exactly when some directive is invalid; it holds
\* at least one violation per invalid directive (validation does not stop at the first),
\* and for every invalid directive the message of its violation is among them.
C9_ValidateAggregates ==
    ValidateCallReturned =>
        LET e == arg.Gomod[1].Edits[1]
            errs == ret[1]
        IN /\ (errs # <<>>) <=> (InvalidDirectiveCount(e) > 0)
           /\ Len(errs) >= InvalidDirectiveCount(e)
           /\ \A i \in 1..Len(e.Require) :
                 /\ e.Require[i].Module = "" => "module must be non-empty" \in SeqRange(errs)
                 /\ ~StrContains(e.Require[i].Version, "@") =>
                       "version must include @version" \in SeqRange(errs)
           /\ \A i \in 1..Len(e.Replace) :
                 InvalidReplace(e.Replace[i]) => "must be non-empty" \in SeqRange(errs)

\* witness of C9: Validate returned for an invalid Require together with an invalid Replace
C9_Witness ==
    /\ ValidateCallReturned
    /\ \E i \in 1..Len(arg.Gomod[1].Edits[1].Require) :
          InvalidRequire(arg.Gomod[1].Edits[1].Require[i])
    /\ \E i \in 1..Len(arg.Gomod[1].Edits[1].Replace) :
          InvalidReplace(arg.Gomod[1].Edits[1].Replace[i])
    /\ Len(ret[1]) >= 2

-----------------------------------------------------------------------------
(* Decoding: claim C10 *)

\* C10: a Require that decoding returns without error has a non-empty Module and a
\* Version with an "@", a Replace a non-empty Original and Update; a mapping whose
\* version has no "@", or whose old or new is empty, is rejected.
C10_DecodedIsValid ==
    /\ (op = "UnmarshalRequire" /\ ret # None) =>
          /\ ret[1].err = <<>> =>
                ret[1].value.Module # "" /\ StrContains(ret[1].value.Version, "@")
          /\ (arg.form = "mapping" /\ ~StrContains(Field(arg, "version"), "@")) =>
                ret[1].err # <<>>
          /\ (arg.form = "mapping" /\ Field(arg, "module") = "") => ret[1].err # <<>>
    /\ (op = "UnmarshalReplace" /\ ret # None) =>
          /\ ret[1].err = <<>> =>
                ret[1].value.Original # "" /\ ret[1].value.Update # ""
          /\ (arg.form = "mapping" /\ (Field(arg, "old") = "" \/ Field(arg, "new") = "")) =>
                ret[1].err # <<>>

\* witness of C10: a Require decoded without error from a YAML scalar
C10_Witness ==
    /\ op = "UnmarshalRequire"
    /\ ret # None
    /\ arg.form = "string"
    /\ arg.format = "yaml"
    /\ ret[1].err = <<>>
    /\ ret[1].value = GomodRequire("example.com/a", "example.com/a@v1.2.0")

-----------------------------------------------------------------------------
(* Decoding: claim C11 *)

\* the positions of the colons of a compact string
Colons(text) == {i \in 1..Len(text) : SubSeq(text, i, i) = ":"}

\* the position of its first colon
FirstColon(text) == CHOOSE i \in Colons(text) : \A j \in Colons(text) : i <= j

\* what is left and what is right of the first colon, further colons included
LeftOfFirstColon(text) == SubSeq(text, 1, FirstColon(text) - 1)
RightOfFirstColon(text) == SubSeq(text, FirstColon(text) + 1, Len(text))

\* a decoder has returned for a compact string, for a structured mapping
ScalarDecoded(name) == op = name /\ ret # None /\ arg.form = "string"
MappingDecoded(name) == op = name /\ ret # None /\ arg.form = "mapping"

\* C11: a compact string without a colon is rejected; one with a colon decodes as the
\* structured mapping whose two fields are what is left of its first colon and all that is
\* right of it (same value, same error), and when it is accepted these are the two fields
\* of the value; a structured mapping that lacks one of its two fields is rejected.
C11_CompactSplitsAtFirstColon ==
    /\ ScalarDecoded("UnmarshalRequire") =>
          IF Colons(arg.text) = {} THEN ret[1].err # <<>>
          ELSE /\ ret[1] = UnmarshalRequire(Mapping(arg.format,
                               ("module" :> LeftOfFirstColon(arg.text))
                               @@ ("version" :> RightOfFirstColon(arg.text))))
               /\ ret[1].err = <<>> =>
                     ret[1].value = GomodRequire(LeftOfFirstColon(arg.text),
                                                 RightOfFirstColon(arg.text))
    /\ ScalarDecoded("UnmarshalReplace") =>
          IF Colons(arg.text) = {} THEN ret[1].err # <<>>
          ELSE /\ ret[1] = UnmarshalReplace(Mapping(arg.format,
                               ("old" :> LeftOfFirstColon(arg.text))
                               @@ ("new" :> RightOfFirstColon(arg.text))))
               /\ ret[1].err = <<>> =>
                     ret[1].value = GomodReplace(LeftOfFirstColon(arg.text),
                                                 RightOfFirstColon(arg.text))
    /\ (MappingDecoded("UnmarshalRequire") /\ DOMAIN arg.fields # {"module", "version"})
          => ret[1].err # <<>>
    /\ (MappingDecoded("UnmarshalReplace") /\ DOMAIN arg.fields # {"old", "new"})
          => ret[1].err # <<>>

\* a Replace decoded without error from a compact string with two colons
C11_Witness ==
    /\ ScalarDecoded("UnmarshalReplace")
    /\ arg.text = "file:C:/mods/a@v1"
    /\ ret[1].err = <<>>
    /\ ret[1].value = GomodReplace("file", "C:/mods/a@v1")

-----------------------------------------------------------------------------
(* The run of the script: claim C12 *)

\* the diffs of module block i, told from the files before and after the run: nothing
\* when its manifest was missing, else the manifest diff and then the lock-file diff
ModuleDiffs(i) ==
    LET m == runData[1].Modules[i]
        sumBefore == IF m.GoSumPath \in DOMAIN runFs0 THEN runFs0[m.GoSumPath] ELSE ""
    IN IF m.GoModPath \notin DOMAIN runFs0 THEN <<>>
       ELSE DiffOutput(m.RelGoModPath, runFs0[m.GoModPath], runFs[m.GoModPath])
            \o DiffOutput(m.RelGoSumPath, sumBefore, runFs[m.GoSumPath])

\* the diffs of the first k module blocks, in the order of the paths
RECURSIVE DiffsUpTo(_)
DiffsUpTo(k) == IF k = 0 THEN <<>> ELSE DiffsUpTo(k - 1) \o ModuleDiffs(k)

\* the run has reached its final report
RunReported == runPc = "reported"

\* the run was ended by a failing git config, edit or tidy command
RunEndedByCommand == runFailed \in {"git config", "go mod edit", "go mod tidy"}

\* C12: the patch-output file holds nothing of an earlier run once the head of the script
\* has run; when the run reaches its final report the file is the concatenation, in
\* declared path order, of the manifest diff and then the lock-file diff of every module
\* whose manifest was there, and nothing for the others; the run is never ended by the
\* exit status of diff, and it reaches its final report unless a git config, edit or tidy
\* command fails.
C12_PatchIsConcatenationOfDiffs ==
    /\ [](runPc \notin {"idle", "head"} =>
             \A i \in 1..Len(runPatch) : runPatch[i].label # "stale")
    /\ [](RunReported => runPatch = DiffsUpTo(Len(runData[1].Modules)))
    /\ [](runPc = "aborted" => RunEndedByCommand)
    /\ <>(RunReported \/ RunEndedByCommand)

\* the run has reported after two module blocks, the first skipped for its missing
\* manifest, the second with a manifest diff and a lock-file diff, diff exiting with 1
C12_Witness ==
    /\ RunReported
    /\ Len(runData[1].Modules) = 2
    /\ runData[1].Modules[1].GoModPath \notin DOMAIN runFs0
    /\ runData[1].Modules[2].GoModPath \in DOMAIN runFs0
    /\ Len(runPatch) = 2
    /\ runPatch[1].label = runData[1].Modules[2].RelGoModPath
    /\ runPatch[2].label = runData[1].Modules[2].RelGoSumPath
    /\ DiffStatus(runPatch[1].from, runPatch[1].to) = 1

-----------------------------------------------------------------------------
(* Preprocess: claim C13 *)

\* the patch references of source n that Preprocess has appended: those after the ones
\* the Spec had
AppendedReferences(n) ==
    SubSeq(MapGetSlice(Patches, n), Len(MapGetSlice(spec0.Patches, n)) + 1,
           Len(MapGetSlice(Patches, n)))

\* name is a source entry of the Spec that wraps an LLB state
IsLLBSource(name) ==
    IF name \in DOMAIN Sources THEN Sources[name].LLB # None ELSE FALSE

\* C13: in every state of a run of Preprocess and after it has returned, with or without
\* an error, every patch reference Preprocess has appended names a source entry of the
\* Spec that wraps an LLB state.
C13_AppendedReferencesResolve ==
    \A n \in DOMAIN Patches :
        \A i \in 1..Len(AppendedReferences(n)) :
            IsLLBSource(AppendedReferences(n)[i].Source)

\* Preprocess has returned an error after it appended a reference for "lib"
C13_Witness ==
    /\ pc = "done"
    /\ err # <<>>
    /\ sourceName = Some("app")
    /\ Len(AppendedReferences("lib")) = 1
    /\ IsLLBSource(AppendedReferences("lib")[1].Source)
    /\ AppendedReferences("lib")[1].Source = "__gomod_patch_lib"

=============================================================================
